---------------------------- MODULE Spec2Model ----------------------------
(***************************************************************************)
(* Polymer-X committee decision engine (geminiBridge.ts): the pure         *)
(* selection / scoring / safety functions, the local three-phase pipeline  *)
(* runSimulatedDebate, the remote path runLiveDebate and its fallback;     *)
(* and the deployment state of the OceanMap component (OceanMap.tsx).      *)
(*                                                                         *)
(* Units: salinity is in tenths of ppt (355 = 35.5 ppt), latitude and      *)
(* longitude in tenths of a degree, efficiency scores in hundredths        *)
(* (90 = 0.90); the scorer accumulates in ten-thousandths before rounding. *)
(* A JavaScript object is a record holding exactly its present properties, *)
(* so an absent property is a name outside DOMAIN.                         *)
(***************************************************************************)
EXTENDS Integers, Sequences, FiniteSets, TLC

VARIABLES
    genAI,            \* GeminiBridge.genAI: TRUE when a backend was constructed
    now,              \* the wall clock read by new Date()
    pc,               \* per invocation: the suspension point it is parked at
    input,            \* per invocation: the WaterAnalysis argument
    liveMonologue,    \* per invocation: runLiveDebate's local monologue array
    monologue,        \* per invocation: runSimulatedDebate's local monologue array
    initialProposal,  \* per invocation: runArchitect's proposal
    finalProposal,    \* per invocation: the proposal handed to runSimulator
    remote,           \* per invocation: how the generateContent call settled
    viaFallback,      \* per invocation: runSimulatedDebate was called from the catch
    response,         \* per invocation: the envelope produced so far
    probe,            \* the last direct call of a pure function and its result
    isDeploying,           \* OceanMap: a deployment is in flight
    deploymentResult,      \* OceanMap: the envelope shown in the result panel, or null
    deploymentHistory,     \* OceanMap: the envelopes listed in the history, newest first
    selectedHistoryIndex   \* OceanMap: the highlighted history row (from 0), or null

vars == <<genAI, now, pc, input, liveMonologue, monologue, initialProposal,
          finalProposal, remote, viaFallback, response, probe,
          isDeploying, deploymentResult, deploymentHistory, selectedHistoryIndex>>

uiVars == <<isDeploying, deploymentResult, deploymentHistory, selectedHistoryIndex>>

engineVars == <<genAI, now, pc, input, liveMonologue, monologue, initialProposal,
                finalProposal, remote, viaFallback, response>>

---------------------------------------------------------------------------
(* Bounds of the model *)

NumCalls == 2
MaxClock == 2
MaxMutationCount == 5
MaxDeployments == 12

Calls == 1..NumCalls

---------------------------------------------------------------------------
(* Type definitions *)

PlasticType == {"PET", "HDPE", "PVC", "LDPE", "PP", "PS"}

SafetyLockType == {"Quorum_Sensing_Type_A", "Quorum_Sensing_Type_B",
                   "Temperature_Sensitive", "Auxotrophic", "Light_Activated"}

ChassisType == {"Halophilic", "Mesophilic", "Thermophilic", "Psychrophilic"}

MandatoryLock == "Quorum_Sensing_Type_B"

Undefined == [kind |-> "undefined"]

\* {...p, f: v}: every property of p, with f set (added or overwritten) to v
Spread(p, f, v) == [g \in DOMAIN p \cup {f} |-> IF g = f THEN v ELSE p[g]]

Min(a, b) == IF a < b THEN a ELSE b
Max(a, b) == IF a > b THEN a ELSE b

---------------------------------------------------------------------------
(* Configuration tables *)

ORGANISM_CHASSIS ==
    [t \in PlasticType |->
        CASE t = "PET"  -> [organism |-> "Ideonella sakaiensis", description |-> "Native PETase producer"]
          [] t = "HDPE" -> [organism |-> "Pseudomonas putida", description |-> "Robust hydrocarbon chassis"]
          [] t = "PVC"  -> [organism |-> "Sphingomonas sp.", description |-> "Chlorinated compound metabolism"]
          [] t = "LDPE" -> [organism |-> "Rhodococcus ruber", description |-> "Alkane-degrading actinobacterium"]
          [] t = "PP"   -> [organism |-> "Aspergillus tubingensis", description |-> "Fungal cutinase chassis"]
          [] t = "PS"   -> [organism |-> "Exiguobacterium sp.", description |-> "Psychrotolerant styrene degrader"]]

ENZYME_CONFIG ==
    [t \in PlasticType |->
        CASE t = "PET"  -> [base |-> "PETase", mutations |-> <<"S238F", "W159H", "S280A">>]
          [] t = "HDPE" -> [base |-> "LacCase-HD", mutations |-> <<"T241M", "G352V">>]
          [] t = "PVC"  -> [base |-> "HaloHyd-VC", mutations |-> <<"C127S", "L89F">>]
          [] t = "LDPE" -> [base |-> "AlkB-LDPE", mutations |-> <<"W55L", "F181Y">>]
          [] t = "PP"   -> [base |-> "CutinasePP", mutations |-> <<"L117F", "S141G">>]
          [] t = "PS"   -> [base |-> "StyreneOx", mutations |-> <<"M108L", "H223Y">>]]

---------------------------------------------------------------------------
(* Simulation logic: the pure functions *)

SalinityThreshold == 350
ScoreBase == 6000
SalinityMatchBonus == 1500
NoStressBonus == 1000
MesophilicStressPenalty == 1000
PerMutationBonus == 500
MutationsCounted == 3
ScoreCeiling == 95

determineChassisType_stressFirst(salinity, stress) ==
    IF stress THEN "Thermophilic"
    ELSE IF salinity > SalinityThreshold THEN "Halophilic"
    ELSE "Mesophilic"

determineChassisType_ge(salinity, stress) ==
    IF salinity >= SalinityThreshold THEN "Halophilic"
    ELSE IF stress THEN "Thermophilic"
    ELSE "Mesophilic"

determineChassisType(salinity, stress) ==
    IF salinity > SalinityThreshold THEN "Halophilic"
    ELSE IF stress THEN "Thermophilic"
    ELSE "Mesophilic"

\* Math.round(score * 100): the nearest hundredth, halves upward
RoundToHundredths(score) == (score + 50) \div 100

calculateEfficiencyScore_uncapped(salinity, stress, chassis, mutationCount) ==
    LET s0 == ScoreBase
        s1 == IF \/ (salinity > SalinityThreshold /\ chassis = "Halophilic")
                 \/ (salinity <= SalinityThreshold /\ chassis # "Halophilic")
              THEN s0 + SalinityMatchBonus ELSE s0
        s2 == IF ~stress THEN s1 + NoStressBonus ELSE s1
        s3 == IF stress /\ chassis = "Mesophilic" THEN s2 - MesophilicStressPenalty ELSE s2
        s4 == s3 + mutationCount * PerMutationBonus
    IN  RoundToHundredths(s4)

calculateEfficiencyScore_doublePenalty(salinity, stress, chassis, mutationCount) ==
    LET s0 == ScoreBase
        s1 == IF \/ (salinity > SalinityThreshold /\ chassis = "Halophilic")
                 \/ (salinity <= SalinityThreshold /\ chassis # "Halophilic")
              THEN s0 + SalinityMatchBonus ELSE s0
        s2 == IF ~stress THEN s1 + NoStressBonus ELSE s1
        s3 == IF stress /\ chassis # "Thermophilic" THEN s2 - MesophilicStressPenalty ELSE s2
        s4 == s3 + Min(mutationCount, MutationsCounted) * PerMutationBonus
    IN  Min(ScoreCeiling, RoundToHundredths(s4))

calculateEfficiencyScore(salinity, stress, chassis, mutationCount) ==
    LET s0 == ScoreBase
        s1 == IF \/ (salinity > SalinityThreshold /\ chassis = "Halophilic")
                 \/ (salinity <= SalinityThreshold /\ chassis # "Halophilic")
              THEN s0 + SalinityMatchBonus ELSE s0
        s2 == IF ~stress THEN s1 + NoStressBonus ELSE s1
        s3 == IF stress /\ chassis = "Mesophilic" THEN s2 - MesophilicStressPenalty ELSE s2
        s4 == s3 + Min(mutationCount, MutationsCounted) * PerMutationBonus
    IN  Min(ScoreCeiling, RoundToHundredths(s4))

runArchitect_locked(in, t) ==
    LET organism == ORGANISM_CHASSIS[in.plastic_type]
        enzymeConfig == ENZYME_CONFIG[in.plastic_type]
        chassis == determineChassisType(in.salinity, in.stress_signal_bool)
        chassisSuffix == IF chassis = "Halophilic" THEN "-Halo"
                         ELSE IF chassis = "Thermophilic" THEN "-Thermo" ELSE ""
    IN  [proposal |->
            [organism |-> organism.organism,
             organism_description |-> organism.description,
             chassis_type |-> chassis,
             enzyme_name |-> <<enzymeConfig.base, "-v4.2", chassisSuffix>>,
             mutation_list |-> enzymeConfig.mutations,
             safety_lock_type |-> MandatoryLock,
             rationale |-> <<organism.organism, in.salinity, in.stress_signal_bool, chassis>>],
         monologue |->
            [agent |-> "ARCHITECT",
             timestamp |-> t,
             thought |-> [text |-> "Analyzing water sample", lat |-> in.lat, lng |-> in.lng,
                          plastic_type |-> in.plastic_type, salinity |-> in.salinity,
                          stress |-> in.stress_signal_bool],
             decision |-> [text |-> "Proposing", organism |-> organism.organism,
                           enzyme |-> enzymeConfig.base, chassis |-> chassis,
                           mutations |-> enzymeConfig.mutations]]]

runArchitect(in, t) ==
    LET organism == ORGANISM_CHASSIS[in.plastic_type]
        enzymeConfig == ENZYME_CONFIG[in.plastic_type]
        chassis == determineChassisType(in.salinity, in.stress_signal_bool)
        chassisSuffix == IF chassis = "Halophilic" THEN "-Halo"
                         ELSE IF chassis = "Thermophilic" THEN "-Thermo" ELSE ""
    IN  [proposal |->
            [organism |-> organism.organism,
             organism_description |-> organism.description,
             chassis_type |-> chassis,
             enzyme_name |-> <<enzymeConfig.base, "-v4.2", chassisSuffix>>,
             mutation_list |-> enzymeConfig.mutations,
             rationale |-> <<organism.organism, in.salinity, in.stress_signal_bool, chassis>>],
         monologue |->
            [agent |-> "ARCHITECT",
             timestamp |-> t,
             thought |-> [text |-> "Analyzing water sample", lat |-> in.lat, lng |-> in.lng,
                          plastic_type |-> in.plastic_type, salinity |-> in.salinity,
                          stress |-> in.stress_signal_bool],
             decision |-> [text |-> "Proposing", organism |-> organism.organism,
                           enzyme |-> enzymeConfig.base, chassis |-> chassis,
                           mutations |-> enzymeConfig.mutations]]]

RejectedEntry(proposal, t) ==
    [agent |-> "SAFETY_OFFICER",
     timestamp |-> t,
     thought |-> [text |-> "Reviewing proposal", organism |-> proposal.organism],
     decision |-> [text |-> "REJECTED"],
     rejected |-> TRUE,
     retry_reason |-> "Forcing retry with mandatory safety lock"]

ApprovedEntry(proposal, t) ==
    [agent |-> "SAFETY_OFFICER",
     timestamp |-> t,
     thought |-> [text |-> "Reviewing proposal", organism |-> proposal.organism],
     decision |-> [text |-> "APPROVED"]]

runSafetyOfficer_rebuilds(proposal, t) ==
    LET hasSafetyLock == /\ "safety_lock_type" \in DOMAIN proposal
                         /\ proposal.safety_lock_type = MandatoryLock
    IN  IF ~hasSafetyLock
        THEN [approved |-> FALSE,
              correctedProposal |-> [organism |-> proposal.organism,
                                     chassis_type |-> proposal.chassis_type,
                                     enzyme_name |-> proposal.enzyme_name,
                                     mutation_list |-> proposal.mutation_list,
                                     safety_lock_type |-> MandatoryLock],
              monologue |-> RejectedEntry(proposal, t)]
        ELSE [approved |-> TRUE,
              correctedProposal |-> proposal,
              monologue |-> ApprovedEntry(proposal, t)]

runSafetyOfficer_presenceOnly(proposal, t) ==
    LET hasSafetyLock == "safety_lock_type" \in DOMAIN proposal
    IN  IF ~hasSafetyLock
        THEN [approved |-> FALSE,
              correctedProposal |-> Spread(proposal, "safety_lock_type", MandatoryLock),
              monologue |-> RejectedEntry(proposal, t)]
        ELSE [approved |-> TRUE,
              correctedProposal |-> proposal,
              monologue |-> ApprovedEntry(proposal, t)]

runSafetyOfficer_noCorrection(proposal, t) ==
    LET hasSafetyLock == /\ "safety_lock_type" \in DOMAIN proposal
                         /\ proposal.safety_lock_type = MandatoryLock
    IN  IF ~hasSafetyLock
        THEN [approved |-> FALSE,
              correctedProposal |-> proposal,
              monologue |-> RejectedEntry(proposal, t)]
        ELSE [approved |-> TRUE,
              correctedProposal |-> proposal,
              monologue |-> ApprovedEntry(proposal, t)]

runSafetyOfficer(proposal, t) ==
    LET hasSafetyLock == /\ "safety_lock_type" \in DOMAIN proposal
                         /\ proposal.safety_lock_type = MandatoryLock
    IN  IF ~hasSafetyLock
        THEN [approved |-> FALSE,
              correctedProposal |-> Spread(proposal, "safety_lock_type", MandatoryLock),
              monologue |-> RejectedEntry(proposal, t)]
        ELSE [approved |-> TRUE,
              correctedProposal |-> proposal,
              monologue |-> ApprovedEntry(proposal, t)]

OptimalFrom == 85
SuboptimalFrom == 70
ConfidenceBase == 85
StressConfidencePenalty == 15
HighSalinityThreshold == 400
HighSalinityConfidencePenalty == 10
ConfidenceFloor == 50

runSimulator_defaultChassis(proposal, in, t) ==
    LET efficiencyScore == calculateEfficiencyScore(in.salinity, in.stress_signal_bool,
                                                    "Mesophilic",
                                                    Len(proposal.mutation_list))
        envMatch == IF efficiencyScore >= OptimalFrom THEN "OPTIMAL"
                    ELSE IF efficiencyScore >= SuboptimalFrom THEN "SUBOPTIMAL"
                    ELSE "MARGINAL"
        c0 == ConfidenceBase
        c1 == IF in.stress_signal_bool THEN c0 - StressConfidencePenalty ELSE c0
        c2 == IF in.salinity > HighSalinityThreshold THEN c1 - HighSalinityConfidencePenalty ELSE c1
        confidence == Max(ConfidenceFloor, c2)
    IN  [efficiency |-> efficiencyScore,
         monologue |->
            [agent |-> "SIMULATOR",
             timestamp |-> t,
             thought |-> [text |-> "Running Evo 2 efficiency simulation",
                          enzyme |-> proposal.enzyme_name, chassis |-> proposal.chassis_type,
                          salinity |-> in.salinity, stress |-> in.stress_signal_bool],
             decision |-> [text |-> "Prediction complete", efficiency |-> efficiencyScore,
                           band |-> envMatch, confidence |-> confidence]]]

runSimulator(proposal, in, t) ==
    LET efficiencyScore == calculateEfficiencyScore(in.salinity, in.stress_signal_bool,
                                                    proposal.chassis_type,
                                                    Len(proposal.mutation_list))
        envMatch == IF efficiencyScore >= OptimalFrom THEN "OPTIMAL"
                    ELSE IF efficiencyScore >= SuboptimalFrom THEN "SUBOPTIMAL"
                    ELSE "MARGINAL"
        c0 == ConfidenceBase
        c1 == IF in.stress_signal_bool THEN c0 - StressConfidencePenalty ELSE c0
        c2 == IF in.salinity > HighSalinityThreshold THEN c1 - HighSalinityConfidencePenalty ELSE c1
        confidence == Max(ConfidenceFloor, c2)
    IN  [efficiency |-> efficiencyScore,
         monologue |->
            [agent |-> "SIMULATOR",
             timestamp |-> t,
             thought |-> [text |-> "Running Evo 2 efficiency simulation",
                          enzyme |-> proposal.enzyme_name, chassis |-> proposal.chassis_type,
                          salinity |-> in.salinity, stress |-> in.stress_signal_bool],
             decision |-> [text |-> "Prediction complete", efficiency |-> efficiencyScore,
                           band |-> envMatch, confidence |-> confidence]]]

---------------------------------------------------------------------------
(* Inputs *)

\* WaterAnalysis values: any numbers are well typed, so a latitude outside
\* [-90, 90] (1000 = 100.0 degrees) is an input the engine can be given
Latitudes == {320, 1000}
Longitudes == {-1450}
Salinities == {350, 355, 410}
PlasticInputs == {"PET", "HDPE"}

Descriptors ==
    [lat : Latitudes, lng : Longitudes, salinity : Salinities,
     plastic_type : PlasticInputs, stress_signal_bool : BOOLEAN]

---------------------------------------------------------------------------
(* JavaScript values produced by JSON.parse, and the remote response text *)

JsObject(props) == [kind |-> "object", props |-> props]
JsNull == [kind |-> "null"]
JsNumberZero == [kind |-> "number", num |-> 0]
JsFalse == [kind |-> "boolean", bool |-> FALSE]
JsEmptyString == [kind |-> "string", str |-> ""]
JsEmptyArray == [kind |-> "array", items |-> <<>>]

EmptyProps == [g \in {} |-> Undefined]

\* the fields of EnzymeDesign other than the score and the safety lock
RemoteOtherFields ==
    [enzyme_name |-> <<"PETase", "-gemini", "">>,
     mutation_list |-> <<"S238F", "W159H">>,
     chassis_type |-> "Mesophilic",
     design_rationale |-> [text |-> "remote rationale"],
     references |-> <<"Lee et al. 2025", "Zhang et al. 2025">>]

RemoteLocks == {"Quorum_Sensing_Type_B", "Auxotrophic"}
RemoteScores == {90, 150, -10}

WithLock(props) == {Spread(props, "safety_lock_type", l) : l \in RemoteLocks}
WithScore(props) == {Spread(props, "predicted_efficiency_score", s) : s \in RemoteScores}
OptLock(S) == S \cup UNION {WithLock(p) : p \in S}
OptScore(S) == S \cup UNION {WithScore(p) : p \in S}

\* objects a response can carry: complete or stripped of the other fields,
\* each with the safety lock absent or present and the score absent or present
RemoteObjects == {JsObject(p) : p \in OptScore(OptLock({EmptyProps, RemoteOtherFields}))}

NotJson == [kind |-> "not-json"]

JsonValues == RemoteObjects \cup {JsNull, JsNumberZero, JsFalse, JsEmptyString, JsEmptyArray}

\* the text of result.response.text(): a JSON document or something else,
\* possibly inside a fenced code block, possibly with prose around it
ResponseTexts == [fenced : BOOLEAN, prose : BOOLEAN, body : JsonValues \cup {NotJson}]

\* lines 380-384: the first fenced block, trimmed, when there is one,
\* the whole text otherwise
ExtractJsonStr(responseText) ==
    IF responseText.fenced
    THEN [prose |-> FALSE, body |-> responseText.body]
    ELSE [prose |-> responseText.prose, body |-> responseText.body]

\* JSON.parse: throws SyntaxError unless the string is exactly one JSON document
JSONparse(jsonStr) ==
    IF jsonStr.prose \/ jsonStr.body = NotJson
    THEN [threw |-> TRUE]
    ELSE [threw |-> FALSE, value |-> jsonStr.body]

\* reading a property of v throws TypeError exactly when v is null
PropertyReadThrows(v) == v.kind = "null"

\* v.f is defined: primitives and arrays have none of the design's properties
HasProperty(v, f) == v.kind = "object" /\ f \in DOMAIN v.props

---------------------------------------------------------------------------
(* GeminiBridge: monologue entries and envelopes built inline *)

\* lines 352-359
DelegationEntry(in, t) ==
    [agent |-> "ARCHITECT",
     timestamp |-> t,
     thought |-> [text |-> "Analyzing water sample", lat |-> in.lat, lng |-> in.lng,
                  plastic_type |-> in.plastic_type, salinity |-> in.salinity,
                  stress |-> in.stress_signal_bool],
     decision |-> [text |-> "Consulting Gemini AI for optimal enzyme design..."]]

\* lines 389-396: the remote path only words its decision, it corrects nothing
LiveSafetyEntry(design, t) ==
    [agent |-> "SAFETY_OFFICER",
     timestamp |-> t,
     thought |-> [text |-> "Reviewing Gemini-generated design"],
     decision |-> IF /\ HasProperty(design, "safety_lock_type")
                     /\ design.props.safety_lock_type = MandatoryLock
                  THEN [text |-> "APPROVED"]
                  ELSE [text |-> "WARNING"]]

\* lines 399-404: (undefined * 100).toFixed(1) is the text "NaN"
LiveSimulatorEntry(design, t) ==
    [agent |-> "SIMULATOR",
     timestamp |-> t,
     thought |-> [text |-> "Validating efficiency prediction from Gemini..."],
     decision |-> IF HasProperty(design, "predicted_efficiency_score")
                  THEN [text |-> "Design validated",
                        efficiency |-> design.props.predicted_efficiency_score]
                  ELSE [text |-> "Design validated", efficiencyNaN |-> TRUE]]

RetryEntry_bySafetyOfficer(t) ==
    [agent |-> "SAFETY_OFFICER",
     timestamp |-> t,
     thought |-> [text |-> "Received rejection from Safety Officer"],
     decision |-> [text |-> "Retry accepted"]]

\* lines 450-455
RetryEntry(t) ==
    [agent |-> "ARCHITECT",
     timestamp |-> t,
     thought |-> [text |-> "Received rejection from Safety Officer"],
     decision |-> [text |-> "Retry accepted"]]

\* lines 418-423
FallbackEntry(t) ==
    [agent |-> "ARCHITECT",
     timestamp |-> t,
     thought |-> [text |-> "Gemini API call failed. Falling back to local simulation."],
     decision |-> [text |-> "Switching to deterministic mode."]]

Unshift_push(array, entry) == Append(array, entry)

Unshift_replace(array, entry) == <<entry>>

\* Array.prototype.unshift
Unshift(array, entry) == <<entry>> \o array

\* lines 445-447
FinalProposal(initial, verdict) ==
    IF verdict.approved
    THEN Spread(initial, "safety_lock_type", MandatoryLock)
    ELSE verdict.correctedProposal

\* lines 464-477: a property read from a proposal that lacks it is undefined
AssembleDesign(proposal, efficiency) ==
    LET fields ==
            [enzyme_name |-> proposal.enzyme_name,
             mutation_list |-> proposal.mutation_list,
             predicted_efficiency_score |-> efficiency,
             chassis_type |-> proposal.chassis_type,
             design_rationale |-> [text |-> "[COMMITTEE CONSENSUS]",
                                   organism |-> proposal.organism,
                                   rationale |-> proposal.rationale,
                                   efficiency |-> efficiency],
             references |-> <<"Lee et al. 2025", "Zhang et al. 2025">>]
    IN  JsObject(IF "safety_lock_type" \in DOMAIN proposal
                 THEN Spread(fields, "safety_lock_type", proposal.safety_lock_type)
                 ELSE fields)

SuccessEnvelope(design, t, entries, mode) ==
    [success |-> TRUE, data |-> design, timestamp |-> t,
     internal_monologue |-> entries, mode |-> mode]

---------------------------------------------------------------------------
(* GeminiBridge: the steps of one invocation c between suspension points *)

Init ==
    /\ genAI \in BOOLEAN
    /\ now = 0
    /\ pc = [c \in Calls |-> "idle"]
    /\ input = [c \in Calls |-> Undefined]
    /\ liveMonologue = [c \in Calls |-> <<>>]
    /\ monologue = [c \in Calls |-> <<>>]
    /\ initialProposal = [c \in Calls |-> Undefined]
    /\ finalProposal = [c \in Calls |-> Undefined]
    /\ remote = [c \in Calls |-> Undefined]
    /\ viaFallback = [c \in Calls |-> FALSE]
    /\ response = [c \in Calls |-> Undefined]
    /\ probe = [fn |-> "none"]
    /\ isDeploying = FALSE
    /\ deploymentResult = JsNull
    /\ deploymentHistory = <<>>
    /\ selectedHistoryIndex = JsNull

\* isLiveMode(): whether the constructor was given an API key
isLiveMode == genAI

\* time passes between any two steps
Tick ==
    /\ now < MaxClock
    /\ now' = now + 1
    /\ UNCHANGED <<genAI, pc, input, liveMonologue, monologue, initialProposal,
                   finalProposal, remote, viaFallback, response, probe, uiVars>>

EnterSimulatedDebate_shared(c, fromCatch) ==
    /\ monologue' = [k \in Calls |-> <<>>]
    /\ viaFallback' = [viaFallback EXCEPT ![c] = fromCatch]
    /\ pc' = [pc EXCEPT ![c] = "delay1"]

\* runSimulatedDebate up to its first await (lines 431-436)
EnterSimulatedDebate(c, fromCatch) ==
    /\ monologue' = [monologue EXCEPT ![c] = <<>>]
    /\ viaFallback' = [viaFallback EXCEPT ![c] = fromCatch]
    /\ pc' = [pc EXCEPT ![c] = "delay1"]

runCommitteeDebate_alwaysLive(c, in) ==
    /\ pc[c] = "idle"
    /\ input' = [input EXCEPT ![c] = in]
    /\ liveMonologue' = [liveMonologue EXCEPT ![c] = <<DelegationEntry(in, now)>>]
    /\ pc' = [pc EXCEPT ![c] = "awaitRemote"]
    /\ UNCHANGED <<monologue, viaFallback>>
    /\ UNCHANGED <<genAI, now, initialProposal, finalProposal, remote, response, probe, uiVars>>

runCommitteeDebate_sharedInput(c, in) ==
    /\ pc[c] = "idle"
    /\ input' = [k \in Calls |-> in]
    /\ IF genAI
       THEN /\ liveMonologue' = [liveMonologue EXCEPT ![c] = <<DelegationEntry(in, now)>>]
            /\ pc' = [pc EXCEPT ![c] = "awaitRemote"]
            /\ UNCHANGED <<monologue, viaFallback>>
       ELSE /\ EnterSimulatedDebate(c, FALSE)
            /\ UNCHANGED liveMonologue
    /\ UNCHANGED <<genAI, now, initialProposal, finalProposal, remote, response, probe, uiVars>>

\* runCommitteeDebate, and the callee up to its first await
runCommitteeDebate(c, in) ==
    /\ pc[c] = "idle"
    /\ input' = [input EXCEPT ![c] = in]
    /\ IF genAI
       THEN /\ liveMonologue' = [liveMonologue EXCEPT ![c] = <<DelegationEntry(in, now)>>]
            /\ pc' = [pc EXCEPT ![c] = "awaitRemote"]
            /\ UNCHANGED <<monologue, viaFallback>>
       ELSE /\ EnterSimulatedDebate(c, FALSE)
            /\ UNCHANGED liveMonologue
    /\ UNCHANGED <<genAI, now, initialProposal, finalProposal, remote, response, probe, uiVars>>

\* generateContent rejects, or response.text() throws: the catch block
GenerateContentRejects(c) ==
    /\ pc[c] = "awaitRemote"
    /\ remote' = [remote EXCEPT ![c] = [outcome |-> "rejected"]]
    /\ EnterSimulatedDebate(c, TRUE)
    /\ UNCHANGED <<genAI, now, input, liveMonologue, initialProposal, finalProposal,
                   response, probe, uiVars>>

GenerateContentResolves_corrects(c, responseText) ==
    /\ pc[c] = "awaitRemote"
    /\ remote' = [remote EXCEPT ![c] = [outcome |-> "resolved", responseText |-> responseText]]
    /\ LET parsed == JSONparse(ExtractJsonStr(responseText))
       IN  IF parsed.threw \/ PropertyReadThrows(parsed.value)
           THEN /\ EnterSimulatedDebate(c, TRUE)
                /\ UNCHANGED <<liveMonologue, response>>
           ELSE LET design == IF parsed.value.kind = "object"
                              THEN JsObject(Spread(parsed.value.props,
                                                   "safety_lock_type", MandatoryLock))
                              ELSE parsed.value
                    entries == liveMonologue[c] \o <<LiveSafetyEntry(parsed.value, now),
                                                      LiveSimulatorEntry(design, now)>>
                IN  /\ liveMonologue' = [liveMonologue EXCEPT ![c] = entries]
                    /\ response' = [response EXCEPT ![c] =
                                        SuccessEnvelope(design, now, entries, "LIVE")]
                    /\ pc' = [pc EXCEPT ![c] = "returned"]
                    /\ UNCHANGED <<monologue, viaFallback>>
    /\ UNCHANGED <<genAI, now, input, initialProposal, finalProposal, probe, uiVars>>

\* generateContent resolves with responseText (lines 377-425)
GenerateContentResolves(c, responseText) ==
    /\ pc[c] = "awaitRemote"
    /\ remote' = [remote EXCEPT ![c] = [outcome |-> "resolved", responseText |-> responseText]]
    /\ LET parsed == JSONparse(ExtractJsonStr(responseText))
       IN  IF parsed.threw \/ PropertyReadThrows(parsed.value)
           THEN /\ EnterSimulatedDebate(c, TRUE)
                /\ UNCHANGED <<liveMonologue, response>>
           ELSE LET design == parsed.value
                    entries == liveMonologue[c] \o <<LiveSafetyEntry(design, now),
                                                      LiveSimulatorEntry(design, now)>>
                IN  /\ liveMonologue' = [liveMonologue EXCEPT ![c] = entries]
                    /\ response' = [response EXCEPT ![c] =
                                        SuccessEnvelope(design, now, entries, "LIVE")]
                    /\ pc' = [pc EXCEPT ![c] = "returned"]
                    /\ UNCHANGED <<monologue, viaFallback>>
    /\ UNCHANGED <<genAI, now, input, initialProposal, finalProposal, probe, uiVars>>

\* a plastic_type outside the tables makes ORGANISM_CHASSIS[...] undefined, and
\* reading organism.organism (line 208) throws TypeError before any entry exists
ArchitectThrows(in) == in.plastic_type \notin PlasticType

FailureEnvelope_live(message, t, entries) ==
    [success |-> FALSE, error |-> message, timestamp |-> t,
     internal_monologue |-> entries, mode |-> "LIVE"]

\* lines 486-494
FailureEnvelope(message, t, entries) ==
    [success |-> FALSE, error |-> message, timestamp |-> t,
     internal_monologue |-> entries, mode |-> "SIMULATION"]

\* where runSimulatedDebate's result goes: to the caller, or to the catch block
\* of runLiveDebate that awaits it
AfterSimulatedDebate(c) == IF viaFallback[c] THEN "awaitFallback" ELSE "returned"

\* Phase 1 (lines 437-441), or the catch block when runArchitect throws
ArchitectPhase(c) ==
    /\ pc[c] = "delay1"
    /\ IF ArchitectThrows(input[c])
       THEN /\ response' = [response EXCEPT ![c] =
                                FailureEnvelope("TypeError", now, monologue[c])]
            /\ pc' = [pc EXCEPT ![c] = AfterSimulatedDebate(c)]
            /\ UNCHANGED <<initialProposal, monologue>>
       ELSE /\ LET r == runArchitect(input[c], now)
               IN  /\ initialProposal' = [initialProposal EXCEPT ![c] = r.proposal]
                   /\ monologue' = [monologue EXCEPT ![c] = Append(@, r.monologue)]
            /\ pc' = [pc EXCEPT ![c] = "delay2"]
            /\ UNCHANGED response
    /\ UNCHANGED <<genAI, now, input, liveMonologue, finalProposal, remote,
                   viaFallback, probe, uiVars>>

SafetyPhase_reproposes(c) ==
    /\ pc[c] = "delay2"
    /\ LET verdict == runSafetyOfficer(initialProposal[c], now)
           reviewed == Append(monologue[c], verdict.monologue)
       IN  IF verdict.approved
           THEN /\ finalProposal' = [finalProposal EXCEPT ![c] =
                                         FinalProposal(initialProposal[c], verdict)]
                /\ monologue' = [monologue EXCEPT ![c] = reviewed]
                /\ pc' = [pc EXCEPT ![c] = "delay3"]
           ELSE /\ monologue' = [monologue EXCEPT ![c] = <<>>]
                /\ pc' = [pc EXCEPT ![c] = "delay1"]
                /\ UNCHANGED finalProposal
    /\ UNCHANGED <<genAI, now, input, liveMonologue, initialProposal, remote,
                   viaFallback, response, probe, uiVars>>

\* Phase 2 (lines 442-459)
SafetyPhase(c) ==
    /\ pc[c] = "delay2"
    /\ LET verdict == runSafetyOfficer(initialProposal[c], now)
           reviewed == Append(monologue[c], verdict.monologue)
       IN  /\ finalProposal' = [finalProposal EXCEPT ![c] =
                                    FinalProposal(initialProposal[c], verdict)]
           /\ monologue' = [monologue EXCEPT ![c] =
                                IF ~verdict.approved
                                THEN Append(reviewed, RetryEntry(now))
                                ELSE reviewed]
    /\ pc' = [pc EXCEPT ![c] = "delay3"]
    /\ UNCHANGED <<genAI, now, input, liveMonologue, initialProposal, remote,
                   viaFallback, response, probe, uiVars>>

SimulatorPhase_unshifts(c) ==
    /\ pc[c] = "delay3"
    /\ LET r == runSimulator(finalProposal[c], input[c], now)
           entries == Unshift(monologue[c], r.monologue)
           design == AssembleDesign(finalProposal[c], r.efficiency)
       IN  /\ monologue' = [monologue EXCEPT ![c] = entries]
           /\ response' = [response EXCEPT ![c] =
                               SuccessEnvelope(design, now, entries, "SIMULATION")]
    /\ pc' = [pc EXCEPT ![c] = AfterSimulatedDebate(c)]
    /\ UNCHANGED <<genAI, now, input, liveMonologue, initialProposal, finalProposal,
                   remote, viaFallback, probe, uiVars>>

\* Phase 3 and assembly (lines 460-485); the envelope's internal_monologue is
\* the monologue array itself
SimulatorPhase(c) ==
    /\ pc[c] = "delay3"
    /\ LET r == runSimulator(finalProposal[c], input[c], now)
           entries == Append(monologue[c], r.monologue)
           design == AssembleDesign(finalProposal[c], r.efficiency)
       IN  /\ monologue' = [monologue EXCEPT ![c] = entries]
           /\ response' = [response EXCEPT ![c] =
                               SuccessEnvelope(design, now, entries, "SIMULATION")]
    /\ pc' = [pc EXCEPT ![c] = AfterSimulatedDebate(c)]
    /\ UNCHANGED <<genAI, now, input, liveMonologue, initialProposal, finalProposal,
                   remote, viaFallback, probe, uiVars>>

FallbackReturns_keepsDelegation(c) ==
    /\ pc[c] = "awaitFallback"
    /\ LET entries == liveMonologue[c]
                         \o Unshift(response[c].internal_monologue, FallbackEntry(now))
       IN  /\ response' = [response EXCEPT ![c].internal_monologue = entries]
           /\ monologue' = [monologue EXCEPT ![c] = entries]
    /\ pc' = [pc EXCEPT ![c] = "returned"]
    /\ UNCHANGED <<genAI, now, input, liveMonologue, initialProposal, finalProposal,
                   remote, viaFallback, probe, uiVars>>

\* the catch block after its await (lines 418-424)
FallbackReturns(c) ==
    /\ pc[c] = "awaitFallback"
    /\ LET entries == Unshift(response[c].internal_monologue, FallbackEntry(now))
       IN  /\ response' = [response EXCEPT ![c].internal_monologue = entries]
           /\ monologue' = [monologue EXCEPT ![c] = entries]
    /\ pc' = [pc EXCEPT ![c] = "returned"]
    /\ UNCHANGED <<genAI, now, input, liveMonologue, initialProposal, finalProposal,
                   remote, viaFallback, probe, uiVars>>

\* the specification follows one invocation from call to return
FirstCall == 1

Next ==
    \/ Tick
    \/ \E in \in Descriptors : runCommitteeDebate(FirstCall, in)
    \/ GenerateContentRejects(FirstCall)
    \/ \E responseText \in ResponseTexts : GenerateContentResolves(FirstCall, responseText)
    \/ ArchitectPhase(FirstCall)
    \/ SafetyPhase(FirstCall)
    \/ SimulatorPhase(FirstCall)
    \/ FallbackReturns(FirstCall)

Spec == Init /\ [][Next]_vars

\* the event loop runs every timer that expired and every continuation whose
\* promise settled: the three delays and the await of the catch block resume
TimerFairness ==
    /\ WF_vars(ArchitectPhase(FirstCall))
    /\ WF_vars(SafetyPhase(FirstCall))
    /\ WF_vars(SimulatorPhase(FirstCall))
    /\ WF_vars(FallbackReturns(FirstCall))

\* the remote backend settles every call, one way or the other
RemoteSettles ==
    WF_vars(\/ GenerateContentRejects(FirstCall)
            \/ \E responseText \in ResponseTexts :
                  GenerateContentResolves(FirstCall, responseText))

\* nothing in runLiveDebate bounds the wait for generateContent
SpecTimers == Init /\ [][Next]_vars /\ TimerFairness

SpecSettling == Init /\ [][Next]_vars /\ TimerFairness /\ RemoteSettles

\* several invocations of one GeminiBridge in flight at once, interleaved at
\* their suspension points; the clock stands still, so that envelopes of
\* different invocations can be compared apart from their timestamps
ConcurrentDescriptors ==
    [lat : {320}, lng : Longitudes, salinity : {350, 355},
     plastic_type : PlasticInputs, stress_signal_bool : {TRUE}]

ConcurrentResponseTexts ==
    {[fenced |-> FALSE, prose |-> FALSE, body |-> NotJson],
     [fenced |-> TRUE, prose |-> TRUE,
      body |-> JsObject(Spread(Spread(RemoteOtherFields, "safety_lock_type", MandatoryLock),
                               "predicted_efficiency_score", 90))]}

NextConcurrent ==
    \/ \E c \in Calls, in \in ConcurrentDescriptors : runCommitteeDebate(c, in)
    \/ \E c \in Calls : GenerateContentRejects(c)
    \/ \E c \in Calls, responseText \in ConcurrentResponseTexts :
          GenerateContentResolves(c, responseText)
    \/ \E c \in Calls : ArchitectPhase(c)
    \/ \E c \in Calls : SafetyPhase(c)
    \/ \E c \in Calls : SimulatorPhase(c)
    \/ \E c \in Calls : FallbackReturns(c)

SpecConcurrent == Init /\ [][NextConcurrent]_vars

\* callers that bypass the type checker: a plastic_type outside PlasticType
IllTypedDescriptors ==
    [lat : {320}, lng : Longitudes, salinity : {355},
     plastic_type : {"NYLON"}, stress_signal_bool : BOOLEAN]

AnyDescriptors == Descriptors \cup IllTypedDescriptors

NextUntyped ==
    \/ Tick
    \/ \E in \in AnyDescriptors : runCommitteeDebate(FirstCall, in)
    \/ GenerateContentRejects(FirstCall)
    \/ \E responseText \in ResponseTexts : GenerateContentResolves(FirstCall, responseText)
    \/ ArchitectPhase(FirstCall)
    \/ SafetyPhase(FirstCall)
    \/ SimulatorPhase(FirstCall)
    \/ FallbackReturns(FirstCall)

SpecUntyped == Init /\ [][NextUntyped]_vars

---------------------------------------------------------------------------
(* Direct calls of the pure functions, over every argument in the bounds *)

ProbeSalinities == {0, 345, 350, 355, 500}

ProbeProposals ==
    LET proposed == {runArchitect(in, 0).proposal : in \in Descriptors}
    IN  proposed \cup {Spread(p, "safety_lock_type", l) : p \in proposed, l \in SafetyLockType}

CallDetermineChassisType ==
    /\ \E salinity \in ProbeSalinities, stress \in BOOLEAN :
          probe' = [fn |-> "determineChassisType", salinity |-> salinity, stress |-> stress,
                    result |-> determineChassisType(salinity, stress)]
    /\ UNCHANGED <<engineVars, uiVars>>

CallCalculateEfficiencyScore ==
    /\ \E salinity \in ProbeSalinities, stress \in BOOLEAN, chassis \in ChassisType,
          mutationCount \in 0..MaxMutationCount :
          probe' = [fn |-> "calculateEfficiencyScore", salinity |-> salinity,
                    stress |-> stress, chassis |-> chassis, mutationCount |-> mutationCount,
                    result |-> calculateEfficiencyScore(salinity, stress, chassis, mutationCount)]
    /\ UNCHANGED <<engineVars, uiVars>>

CallRunSafetyOfficer ==
    /\ \E proposal \in ProbeProposals :
          probe' = [fn |-> "runSafetyOfficer", proposal |-> proposal,
                    result |-> runSafetyOfficer(proposal, now)]
    /\ UNCHANGED <<engineVars, uiVars>>

\* runSafetyOfficer, and then runSafetyOfficer again on what it returned
CallRunSafetyOfficerTwice ==
    /\ \E proposal \in ProbeProposals :
          LET first == runSafetyOfficer(proposal, now)
          IN  probe' = [fn |-> "runSafetyOfficer twice", proposal |-> proposal,
                        first |-> first,
                        second |-> runSafetyOfficer(first.correctedProposal, now)]
    /\ UNCHANGED <<engineVars, uiVars>>

NextPure ==
    \/ CallDetermineChassisType
    \/ CallCalculateEfficiencyScore
    \/ CallRunSafetyOfficer
    \/ CallRunSafetyOfficerTwice

SpecPure == Init /\ [][NextPure]_vars

---------------------------------------------------------------------------
(* OceanMap: the deployment state of the component and its three handlers *)

JsNumber(n) == [kind |-> "number", num |-> n]

\* the envelope a call of runCommitteeDebate resolved with, as the object it
\* is: indexOf and the row highlight compare envelopes by identity, and every
\* call returns a new object whatever its contents
Envelope(ref) == JsObject([ref |-> ref])

\* every envelope the bounded number of deployments can produce
Envelopes == {Envelope(ref) : ref \in 1..MaxDeployments}

\* line 111: the history keeps the 10 newest envelopes
HistoryLimit == 10

\* Array.prototype.slice(0, end)
Slice(array, end) == SubSeq(array, 1, Min(Len(array), end))

\* Array.prototype.indexOf: the first position (from 0) holding the element,
\* -1 when there is none
IndexOf(array, element) ==
    IF \E i \in 1..Len(array) : array[i] = element
    THEN (CHOOSE i \in 1..Len(array) :
              /\ array[i] = element
              /\ \A j \in 1..(i - 1) : array[j] # element) - 1
    ELSE -1

\* the object the next call resolves with: newer than the newest in the history
NextEnvelopeRef ==
    IF deploymentHistory = <<>> THEN 1 ELSE deploymentHistory[1].props.ref + 1

\* the Deploy button, disabled while isDeploying (line 235): handleDeploy up
\* to its await (lines 88-107)
handleDeploy ==
    /\ ~isDeploying
    /\ NextEnvelopeRef <= MaxDeployments
    /\ isDeploying' = TRUE
    /\ deploymentResult' = JsNull
    /\ selectedHistoryIndex' = JsNull
    /\ UNCHANGED <<deploymentHistory, engineVars, probe>>

\* runCommitteeDebate resolves: the rest of handleDeploy (lines 107-111, 141)
DeployCompletes ==
    /\ isDeploying
    /\ LET result == Envelope(NextEnvelopeRef)
       IN  /\ deploymentResult' = result
           /\ deploymentHistory' = Slice(<<result>> \o deploymentHistory, HistoryLimit)
    /\ isDeploying' = FALSE
    /\ UNCHANGED <<selectedHistoryIndex, engineVars, probe>>

\* DeploymentHistory renders one row per entry of the history (line 27)
RenderedRows == {deploymentHistory[i] : i \in DOMAIN deploymentHistory}

\* a click on a row of the history (DeploymentHistory line 39, lines 146-150)
handleSelectDeployment(deployment) ==
    /\ deployment \in RenderedRows
    /\ selectedHistoryIndex' = JsNumber(IndexOf(deploymentHistory, deployment))
    /\ deploymentResult' = deployment
    /\ UNCHANGED <<isDeploying, deploymentHistory, engineVars, probe>>

NextOceanMap ==
    \/ handleDeploy
    \/ DeployCompletes
    \/ \E deployment \in Envelopes : handleSelectDeployment(deployment)

SpecOceanMap == Init /\ [][NextOceanMap]_vars

---------------------------------------------------------------------------
(* Properties *)

Returned(c) == pc[c] = "returned"

\* the value runSimulatedDebate resolved with is in response[c] from then on
LocalEnvelopeProduced(c) ==
    /\ pc[c] \in {"awaitFallback", "returned"}
    /\ response[c].mode = "SIMULATION"

LockOf(envelope) ==
    IF HasProperty(envelope.data, "safety_lock_type")
    THEN envelope.data.props.safety_lock_type
    ELSE "undefined"

DesignFields == {"enzyme_name", "mutation_list", "predicted_efficiency_score",
                 "safety_lock_type", "chassis_type", "design_rationale", "references"}

\* the response text yields an object carrying every field of EnzymeDesign
WellFormedPayload(responseText) ==
    LET parsed == JSONparse(ExtractJsonStr(responseText))
    IN  /\ ~parsed.threw
        /\ parsed.value.kind = "object"
        /\ DesignFields \subseteq DOMAIN parsed.value.props

\* the design the local pipeline assembles for a descriptor
LocalDesign(in) ==
    LET initial == runArchitect(in, 0).proposal
        final == FinalProposal(initial, runSafetyOfficer(initial, 0))
    IN  AssembleDesign(final, runSimulator(final, in, 0).efficiency)

\* C1: every success envelope returned by runCommitteeDebate, in either mode
\* and whatever the remote response text, carries
\* data.safety_lock_type = 'Quorum_Sensing_Type_B'.
C1_EverySuccessEnvelopeLocked ==
    \A c \in Calls :
        (Returned(c) /\ response[c].success) => LockOf(response[c]) = MandatoryLock

\* C2: every success envelope produced by runSimulatedDebate, called directly
\* or as the fallback of a failed remote attempt, carries
\* data.safety_lock_type = 'Quorum_Sensing_Type_B'.
C2_LocalEnvelopeLocked ==
    \A c \in Calls :
        (LocalEnvelopeProduced(c) /\ response[c].success)
            => LockOf(response[c]) = MandatoryLock

\* C2 witness: the local pipeline ran as a fallback and its success envelope
\* was returned to the caller
C2_Witness ==
    \E c \in Calls :
        /\ Returned(c) /\ viaFallback[c]
        /\ response[c].success /\ response[c].mode = "SIMULATION"
        /\ response[c].internal_monologue[2].agent = "ARCHITECT"
        /\ response[c].internal_monologue[3].agent = "SAFETY_OFFICER"

\* C3: every success envelope returned by runCommitteeDebate, in either mode,
\* has data.predicted_efficiency_score within [0, 0.95].
C3_EverySuccessScoreInRange ==
    \A c \in Calls :
        (Returned(c) /\ response[c].success)
            => /\ HasProperty(response[c].data, "predicted_efficiency_score")
               /\ response[c].data.props.predicted_efficiency_score \in 0..ScoreCeiling

\* C4: every returned envelope is one of two variants: success with data (a
\* design object) and no error, or failure with an error and no data.
C4_EnvelopeIsTaggedUnion ==
    \A c \in Calls :
        Returned(c) =>
            LET e == response[c]
            IN  \/ /\ e.success
                   /\ "data" \in DOMAIN e /\ e.data.kind = "object"
                   /\ "error" \notin DOMAIN e
                \/ /\ ~e.success
                   /\ "error" \in DOMAIN e
                   /\ "data" \notin DOMAIN e

\* C5: determineChassisType returns 'Halophilic' whenever salinity > 35,
\* 'Thermophilic' whenever salinity <= 35 and stress holds, 'Mesophilic'
\* whenever salinity <= 35 without stress, and never 'Psychrophilic'.
C5_ChassisSelection ==
    probe.fn = "determineChassisType" =>
        /\ (probe.salinity > 350) => (probe.result = "Halophilic")
        /\ (probe.salinity <= 350 /\ probe.stress) => (probe.result = "Thermophilic")
        /\ (probe.salinity <= 350 /\ ~probe.stress) => (probe.result = "Mesophilic")
        /\ probe.result # "Psychrophilic"

\* C5 witness: salinity exactly 35 under stress is not salt-tolerant
C5_Witness ==
    /\ probe.fn = "determineChassisType"
    /\ probe.salinity = 350 /\ probe.stress
    /\ probe.result = "Thermophilic"

\* C6 as stated: for every salinity, stress flag, chassis (consistent with the
\* salinity or not) and mutation count, the score lies in [0.60, 0.95].
C6_ScoreAtLeastSixty ==
    probe.fn = "calculateEfficiencyScore" => probe.result \in 60..95

\* C6 amended: the score lies in [0.50, 0.95], and it is below 0.60 only for
\* stress with a 'Mesophilic' chassis at salinity > 35 and fewer than two
\* mutations.
C6_ScoreAtLeastFifty ==
    probe.fn = "calculateEfficiencyScore" =>
        /\ probe.result \in 50..95
        /\ (probe.result < 60) =>
              /\ probe.stress /\ probe.chassis = "Mesophilic"
              /\ probe.salinity > 350 /\ probe.mutationCount < 2

\* C6 witness: the double penalty without any bonus gives 0.50
C6_Witness ==
    /\ probe.fn = "calculateEfficiencyScore"
    /\ probe.stress /\ probe.chassis = "Mesophilic" /\ probe.salinity > 350
    /\ probe.mutationCount = 0
    /\ probe.result = 50

\* C7: in hundredths the score is min(95, 60 + 15*[chassis consistent with
\* salinity] + 10*[no stress] - 10*[stress and Mesophilic] + 5*min(count, 3)),
\* and mutations beyond the third never change it.
C7_ScoreFormula ==
    probe.fn = "calculateEfficiencyScore" =>
        LET consistent == \/ (probe.salinity > 350 /\ probe.chassis = "Halophilic")
                          \/ (probe.salinity <= 350 /\ probe.chassis # "Halophilic")
            counted == IF probe.mutationCount < 3 THEN probe.mutationCount ELSE 3
            sum == 60 + (IF consistent THEN 15 ELSE 0)
                      + (IF ~probe.stress THEN 10 ELSE 0)
                      - (IF probe.stress /\ probe.chassis = "Mesophilic" THEN 10 ELSE 0)
                      + 5 * counted
        IN  /\ probe.result = (IF sum > 95 THEN 95 ELSE sum)
            /\ (probe.mutationCount >= 3) =>
                  probe.result = calculateEfficiencyScore(probe.salinity, probe.stress,
                                                          probe.chassis, 3)

\* C7 witness: five mutations on an inconsistent chassis under stress score
\* as three do, below the ceiling
C7_Witness ==
    /\ probe.fn = "calculateEfficiencyScore"
    /\ probe.mutationCount = 5 /\ probe.stress
    /\ probe.chassis = "Psychrophilic" /\ probe.salinity > 350
    /\ probe.result = 75

\* C8: runSafetyOfficer rejects a proposal whose lock is absent or is another
\* SafetyLockType value and returns a corrected proposal locked with
\* 'Quorum_Sensing_Type_B'; it approves a proposal already so locked and
\* returns it unchanged; the entry has rejected = true and a retry_reason
\* exactly when it rejects.
C8_SafetyOfficerVerdict ==
    probe.fn = "runSafetyOfficer" =>
        LET p == probe.proposal
            r == probe.result
            locked == "safety_lock_type" \in DOMAIN p /\ p.safety_lock_type = MandatoryLock
            flagged == /\ "rejected" \in DOMAIN r.monologue
                       /\ r.monologue.rejected
                       /\ "retry_reason" \in DOMAIN r.monologue
            unflagged == /\ "rejected" \notin DOMAIN r.monologue
                         /\ "retry_reason" \notin DOMAIN r.monologue
        IN  /\ ~locked => /\ ~r.approved
                          /\ "safety_lock_type" \in DOMAIN r.correctedProposal
                          /\ r.correctedProposal.safety_lock_type = MandatoryLock
                          /\ flagged
            /\ locked => /\ r.approved
                         /\ r.correctedProposal = p
                         /\ unflagged

\* C8 witness: a proposal carrying another lock value was rejected
C8_Witness ==
    /\ probe.fn = "runSafetyOfficer"
    /\ "safety_lock_type" \in DOMAIN probe.proposal
    /\ probe.proposal.safety_lock_type = "Auxotrophic"
    /\ ~probe.result.approved

\* C9: when a backend is configured and the remote call throws, the returned
\* envelope has success = true and mode = 'SIMULATION', and its first
\* monologue entry is the ARCHITECT entry announcing the fallback.
C9_RemoteThrowFallsBack ==
    \A c \in Calls :
        (Returned(c) /\ remote[c] = [outcome |-> "rejected"]) =>
            /\ response[c].success
            /\ response[c].mode = "SIMULATION"
            /\ Len(response[c].internal_monologue) >= 1
            /\ response[c].internal_monologue[1].agent = "ARCHITECT"
            /\ response[c].internal_monologue[1].thought =
                  [text |-> "Gemini API call failed. Falling back to local simulation."]

\* C9 witness: a configured backend threw and the invocation has returned
C9_Witness ==
    \E c \in Calls :
        /\ genAI /\ Returned(c)
        /\ remote[c] = [outcome |-> "rejected"]
        /\ Len(response[c].internal_monologue) = 5

\* C10: whenever the response text does not yield a well-formed design payload
\* the returned envelope has mode = 'SIMULATION' and carries the local
\* pipeline's design, never the remote payload.
C10_MalformedPayloadFallsBack ==
    \A c \in Calls :
        (/\ Returned(c)
         /\ remote[c] # Undefined /\ remote[c].outcome = "resolved"
         /\ ~WellFormedPayload(remote[c].responseText))
            => /\ response[c].mode = "SIMULATION"
               /\ response[c].data = LocalDesign(input[c])

\* C11: an invocation whose latitude is outside [-90, 90], whose longitude is
\* outside [-180, 180] or whose contaminant class is not a PlasticType fails
\* before the pipeline starts: no monologue entry, no phase, no envelope.
C11_InvalidInputRejected ==
    \A c \in Calls :
        (/\ input[c] # Undefined
         /\ \/ input[c].lat \notin -900..900
            \/ input[c].lng \notin -1800..1800
            \/ input[c].plastic_type \notin PlasticType)
            => /\ liveMonologue[c] = <<>>
               /\ monologue[c] = <<>>
               /\ response[c] = Undefined
               /\ pc[c] \notin {"delay2", "delay3", "awaitFallback", "returned"}

\* C12 as stated: a fault in the local phases is returned as an envelope with
\* success = false, an error, mode = 'SIMULATION' and a monologue equal to
\* exactly the entries the pipeline had appended before the fault.
C12_FaultBecomesFailureEnvelope ==
    [][\A c \in Calls :
          (~Returned(c) /\ Returned(c)' /\ ~response'[c].success)
              => /\ "error" \in DOMAIN response'[c]
                 /\ "data" \notin DOMAIN response'[c]
                 /\ response'[c].mode = "SIMULATION"
                 /\ response'[c].internal_monologue = monologue[c]]_vars

\* C12 amended: the same, with the monologue preceded by the one ARCHITECT
\* fallback entry when the pipeline ran as the fallback of a remote attempt.
C12_FaultBecomesFailureEnvelopeAfterFallback ==
    [][\A c \in Calls :
          (~Returned(c) /\ Returned(c)' /\ ~response'[c].success)
              => /\ "error" \in DOMAIN response'[c]
                 /\ "data" \notin DOMAIN response'[c]
                 /\ response'[c].mode = "SIMULATION"
                 /\ response'[c].internal_monologue =
                       IF viaFallback[c]
                       THEN <<FallbackEntry(now)>> \o monologue[c]
                       ELSE monologue[c]]_vars

\* C12 witness: the fallback pipeline faulted and its failure envelope was
\* returned
C12_Witness ==
    \E c \in Calls :
        /\ Returned(c) /\ viaFallback[c]
        /\ ~response[c].success
        /\ response[c].error = "TypeError"

\* the order of the suspension points of one invocation
Rank(p) ==
    CASE p = "idle" -> 0
      [] p = "awaitRemote" -> 1
      [] p = "delay1" -> 2
      [] p = "delay2" -> 3
      [] p = "delay3" -> 4
      [] p = "awaitFallback" -> 5
      [] p = "returned" -> 6

\* C13: every invocation eventually returns, given that the delays resume and
\* the remote call settles; no suspension point is visited twice or out of
\* order, and the envelope, once returned, is the only one.
C13_EveryInvocationReturns ==
    /\ \A c \in Calls : (pc[c] # "idle") ~> Returned(c)
    /\ [][\A c \in Calls :
             /\ Rank(pc'[c]) >= Rank(pc[c])
             /\ Returned(c) => (Returned(c)' /\ response'[c] = response[c])]_vars

\* C13 witness: a local run went through the correction cycle and returned
C13_Witness ==
    \E c \in Calls :
        /\ Returned(c) /\ ~viaFallback[c]
        /\ response[c].mode = "SIMULATION"
        /\ Len(monologue[c]) = 4

\* C14: when the remote call never responds the engine times out, falls back,
\* and the caller eventually receives an envelope with mode = 'SIMULATION'.
C14_UnansweredRemoteCallTimesOut ==
    \A c \in Calls :
        (<>(pc[c] = "awaitRemote") /\ [](remote[c] = Undefined))
            => <>(Returned(c) /\ response[c].mode = "SIMULATION")

\* the entries the local pipeline itself appended to the envelope it produced
LocalPipelineEntries(c) ==
    IF Returned(c) /\ viaFallback[c]
    THEN Tail(response[c].internal_monologue)
    ELSE response[c].internal_monologue

Agents(entries) == [i \in 1..Len(entries) |-> entries[i].agent]

IsRejection(entry) == "rejected" \in DOMAIN entry /\ entry.rejected

\* C15: a successful local run logs ARCHITECT, SAFETY_OFFICER, SIMULATOR when
\* the review approved and ARCHITECT, SAFETY_OFFICER (rejected, with a
\* retry_reason), ARCHITECT (retry accepted), SIMULATOR when it rejected; there
\* is one SAFETY_OFFICER entry, at most one rejection, and SIMULATOR is last.
C15_MonologueShape ==
    \A c \in Calls :
        (LocalEnvelopeProduced(c) /\ response[c].success) =>
            LET m == LocalPipelineEntries(c)
                reviews == {i \in 1..Len(m) : m[i].agent = "SAFETY_OFFICER"}
                rejections == {i \in 1..Len(m) : IsRejection(m[i])}
            IN  /\ Cardinality(reviews) = 1
                /\ Cardinality(rejections) <= 1
                /\ m[Len(m)].agent = "SIMULATOR"
                /\ IF rejections = {}
                   THEN Agents(m) = <<"ARCHITECT", "SAFETY_OFFICER", "SIMULATOR">>
                   ELSE /\ Agents(m) = <<"ARCHITECT", "SAFETY_OFFICER",
                                         "ARCHITECT", "SIMULATOR">>
                        /\ rejections = {2}
                        /\ "retry_reason" \in DOMAIN m[2]
                        /\ m[3].decision = [text |-> "Retry accepted"]

\* C15 witness: the local pipeline has just produced a success envelope for the
\* catch block, with the rejection in second place
C15_Witness ==
    \E c \in Calls :
        /\ pc[c] = "awaitFallback" /\ response[c].success
        /\ Len(response[c].internal_monologue) = 4
        /\ IsRejection(response[c].internal_monologue[2])

IsPrefix(a, b) == Len(a) <= Len(b) /\ SubSeq(b, 1, Len(a)) = a

\* C16 as stated: at every step, the fallback included, each monologue
\* sequence before the step is a prefix of the one after it, and the monologue
\* of an envelope the local pipeline has returned is not changed.
C16_AppendOnly ==
    [][\A c \in Calls :
          /\ IsPrefix(liveMonologue[c], liveMonologue'[c])
          /\ IsPrefix(monologue[c], monologue'[c])
          /\ (pc[c] \in {"awaitFallback", "returned"}) =>
                response'[c].internal_monologue = response[c].internal_monologue]_vars

\* C16 amended: the same at every step but the fallback's return, which puts
\* exactly one ARCHITECT entry in front of the entries the local pipeline
\* returned and leaves those unchanged and in order; after the invocation has
\* returned nothing changes.
C16_AppendOnlyButFallback ==
    [][\A c \in Calls :
          /\ IsPrefix(liveMonologue[c], liveMonologue'[c])
          /\ IF pc[c] = "awaitFallback" /\ pc'[c] # "awaitFallback"
             THEN /\ Len(monologue'[c]) = Len(monologue[c]) + 1
                  /\ Tail(monologue'[c]) = monologue[c]
                  /\ Head(monologue'[c]).agent = "ARCHITECT"
                  /\ response'[c].internal_monologue = monologue'[c]
             ELSE /\ IsPrefix(monologue[c], monologue'[c])
                  /\ (pc[c] \in {"awaitFallback", "returned"}) =>
                        response'[c].internal_monologue = response[c].internal_monologue
          /\ Returned(c) => response'[c] = response[c]]_vars

\* C16 witness: the fallback entry stands in front of the four entries of the
\* local pipeline, and the remote attempt's own array kept its single entry
C16_Witness ==
    \E c \in Calls :
        /\ Returned(c) /\ viaFallback[c] /\ response[c].success
        /\ Len(liveMonologue[c]) = 1
        /\ Len(monologue[c]) = 5
        /\ monologue[c][1].decision = [text |-> "Switching to deterministic mode."]
        /\ monologue[c][2].decision.text = "Proposing"

SoloSimulatedDebate(in, t) ==
    LET architect == runArchitect(in, t)
        verdict == runSafetyOfficer(architect.proposal, t)
        final == FinalProposal(architect.proposal, verdict)
        simulator == runSimulator(final, in, t)
        reviewed == <<architect.monologue, verdict.monologue>>
        entries == (IF verdict.approved THEN reviewed ELSE Append(reviewed, RetryEntry(t)))
                      \o <<simulator.monologue>>
    IN  SuccessEnvelope(AssembleDesign(final, simulator.efficiency), t, entries, "SIMULATION")

\* the envelope of one invocation run on its own, given how its remote call
\* settled
SoloCommitteeDebate(in, live, settled, t) ==
    IF ~live
    THEN SoloSimulatedDebate(in, t)
    ELSE LET parsed == IF settled.outcome = "resolved"
                       THEN JSONparse(ExtractJsonStr(settled.responseText))
                       ELSE [threw |-> TRUE]
         IN  IF parsed.threw \/ PropertyReadThrows(parsed.value)
             THEN [SoloSimulatedDebate(in, t) EXCEPT
                      !.internal_monologue = Unshift(@, FallbackEntry(t))]
             ELSE SuccessEnvelope(parsed.value, t,
                                  <<DelegationEntry(in, t),
                                    LiveSafetyEntry(parsed.value, t),
                                    LiveSimulatorEntry(parsed.value, t)>>, "LIVE")

\* C19: invocations interleaved at their suspension points do not interfere:
\* each returns the envelope it would have returned alone, so no monologue
\* holds an entry of another invocation.
C19_NoInterference ==
    \A c \in Calls :
        Returned(c) => response[c] = SoloCommitteeDebate(input[c], genAI, remote[c], now)

\* C19 witness: one invocation has returned while another, given a different
\* descriptor, is in flight between its second and third phase
C19_Witness ==
    \E c1, c2 \in Calls :
        /\ Returned(c1) /\ pc[c2] = "delay3"
        /\ input[c1] # input[c2]
        /\ Len(monologue[c2]) = 3

\* the default control state of the map: 32.0 N, 145.0 W, 35.5 ppt, PET, stress
ExampleDescriptor ==
    [lat |-> 320, lng |-> -1450, salinity |-> 355,
     plastic_type |-> "PET", stress_signal_bool |-> TRUE]

\* the envelope the local pipeline returns for the example descriptor: success,
\* mode SIMULATION, score 0.90, the mandatory lock, and the given chassis
ExampleEnvelope(envelope, chassis) ==
    /\ envelope.success
    /\ envelope.mode = "SIMULATION"
    /\ envelope.data.props.chassis_type = chassis
    /\ envelope.data.props.predicted_efficiency_score = 90
    /\ LockOf(envelope) = MandatoryLock

\* C18 as stated: for the descriptor {32.0, -145.0, 35.5, PET, stress} the local
\* pipeline selects 'Thermophilic', scores 0.90 and returns a success envelope
\* of mode SIMULATION with the lock Quorum_Sensing_Type_B.
C18_ExampleThermophilic ==
    \A c \in Calls :
        (LocalEnvelopeProduced(c) /\ input[c] = ExampleDescriptor)
            => ExampleEnvelope(response[c], "Thermophilic")

\* C18 amended: for that descriptor the local pipeline selects 'Halophilic'
\* (35.5 > 35), scores 0.90 and returns a success envelope of mode SIMULATION
\* with the lock Quorum_Sensing_Type_B.
C18_ExampleHalophilic ==
    \A c \in Calls :
        (LocalEnvelopeProduced(c) /\ input[c] = ExampleDescriptor)
            => ExampleEnvelope(response[c], "Halophilic")

\* C18 witness: the local pipeline, called directly, has returned for the
\* example descriptor
C18_Witness ==
    /\ Returned(FirstCall) /\ ~genAI
    /\ input[FirstCall] = ExampleDescriptor
    /\ response[FirstCall].data.props.chassis_type = "Halophilic"

IsFallbackEntry(entry) ==
    /\ entry.agent = "ARCHITECT"
    /\ entry.decision = [text |-> "Switching to deterministic mode."]

\* C20: without an API key every invocation runs only the local pipeline (the
\* remote call is never made, no fallback entry appears, every returned
\* envelope has mode SIMULATION); a LIVE envelope is only returned by an
\* instance with a key; isLiveMode never changes.
C20_NoKeyNoRemote ==
    /\ [](~isLiveMode =>
            \A c \in Calls :
                /\ pc[c] \notin {"awaitRemote", "awaitFallback"}
                /\ remote[c] = Undefined
                /\ liveMonologue[c] = <<>>
                /\ ~viaFallback[c]
                /\ \A i \in DOMAIN monologue[c] : ~IsFallbackEntry(monologue[c][i])
                /\ Returned(c) =>
                      /\ response[c].mode = "SIMULATION"
                      /\ \A i \in DOMAIN response[c].internal_monologue :
                            ~IsFallbackEntry(response[c].internal_monologue[i]))
    /\ [](\A c \in Calls : (Returned(c) /\ response[c].mode = "LIVE") => isLiveMode)
    /\ [][isLiveMode' = isLiveMode]_vars

\* C20 witness: an instance without a key has returned an envelope
C20_Witness ==
    /\ ~isLiveMode
    /\ Returned(FirstCall)
    /\ response[FirstCall].mode = "SIMULATION"
    /\ Len(response[FirstCall].internal_monologue) >= 3

\* the value JSON.parse returned for invocation c: the remote call resolved,
\* the text parsed, and reading a property of the value does not throw
ParsedPayload(c) == JSONparse(ExtractJsonStr(remote[c].responseText)).value

PayloadParsed(c) ==
    /\ remote[c] # Undefined
    /\ remote[c].outcome = "resolved"
    /\ ~JSONparse(ExtractJsonStr(remote[c].responseText)).threw
    /\ ~PropertyReadThrows(ParsedPayload(c))

SoloLocalEnvelope(in, t) ==
    IF ArchitectThrows(in)
    THEN FailureEnvelope("TypeError", t, <<>>)
    ELSE SoloSimulatedDebate(in, t)

\* an envelope with the instants of its timestamps set aside
WithoutTimestamps(envelope) ==
    [envelope EXCEPT
        !.timestamp = 0,
        !.internal_monologue = [i \in 1..Len(@) |-> [@[i] EXCEPT !.timestamp = 0]]]

\* C22: the envelope the fallback returns is the envelope the local pipeline
\* returns for the same descriptor (success flag, data, error, mode, entries;
\* timestamps aside) with exactly one ARCHITECT entry in front of its
\* monologue, also when that envelope is a failure; the delegation entry of
\* the failed remote attempt is not in it.
C22_FallbackIsLocalPlusOneEntry ==
    \A c \in Calls :
        (Returned(c) /\ viaFallback[c]) =>
            LET local == WithoutTimestamps(SoloLocalEnvelope(input[c], 0))
                returned == WithoutTimestamps(response[c])
            IN  /\ returned = [local EXCEPT
                                 !.internal_monologue = <<FallbackEntry(0)>> \o @]
                /\ liveMonologue[c] = <<DelegationEntry(input[c], liveMonologue[c][1].timestamp)>>
                /\ \A i \in DOMAIN returned.internal_monologue :
                      returned.internal_monologue[i] # DelegationEntry(input[c], 0)

\* C22 witness: the fallback has returned a failure envelope, one entry long,
\* some time after the remote attempt began
C22_Witness ==
    \E c \in Calls :
        /\ Returned(c) /\ viaFallback[c]
        /\ ~response[c].success
        /\ Len(response[c].internal_monologue) = 1
        /\ response[c].internal_monologue[1].timestamp > liveMonologue[c][1].timestamp

\* proposals p and q have the same fields with the same values, the
\* safety_lock_type aside
SameButLock(p, q) ==
    /\ DOMAIN p \ {"safety_lock_type"} = DOMAIN q \ {"safety_lock_type"}
    /\ \A f \in DOMAIN p \ {"safety_lock_type"} : p[f] = q[f]

\* C23: for every proposal p, runSafetyOfficer(p).correctedProposal differs
\* from p in at most safety_lock_type, and runSafetyOfficer applied to that
\* corrected proposal approves it and returns it field for field.
C23_LockingIsIdempotent ==
    probe.fn = "runSafetyOfficer twice" =>
        /\ SameButLock(probe.proposal, probe.first.correctedProposal)
        /\ probe.first.correctedProposal.safety_lock_type = MandatoryLock
        /\ probe.second.approved
        /\ probe.second.correctedProposal = probe.first.correctedProposal

\* C23 witness: a proposal locked with another value was corrected, and the
\* corrected proposal was approved
C23_Witness ==
    /\ probe.fn = "runSafetyOfficer twice"
    /\ "safety_lock_type" \in DOMAIN probe.proposal
    /\ probe.proposal.safety_lock_type = "Light_Activated"
    /\ ~probe.first.approved
    /\ probe.second.approved

\* C24: the proposal runArchitect builds never carries a safety_lock_type, so
\* the review rejects in every local run: no SAFETY_OFFICER entry of the
\* pipeline is an approval, and a successful local envelope's monologue is
\* ARCHITECT, SAFETY_OFFICER (rejected), ARCHITECT, SIMULATOR, with the
\* fallback entry in front of these four when returned through the fallback.
C24_ReviewAlwaysRejects ==
    \A c \in Calls :
        /\ initialProposal[c] # Undefined =>
              "safety_lock_type" \notin DOMAIN initialProposal[c]
        /\ \A i \in DOMAIN monologue[c] :
              monologue[c][i].agent = "SAFETY_OFFICER" => IsRejection(monologue[c][i])
        /\ (LocalEnvelopeProduced(c) /\ response[c].success) =>
              /\ Agents(LocalPipelineEntries(c))
                    = <<"ARCHITECT", "SAFETY_OFFICER", "ARCHITECT", "SIMULATOR">>
              /\ IsRejection(LocalPipelineEntries(c)[2])
              /\ Len(response[c].internal_monologue)
                    = IF Returned(c) /\ viaFallback[c] THEN 5 ELSE 4

\* C24 witness: a direct local run has returned its four entries
C24_Witness ==
    \E c \in Calls :
        /\ Returned(c) /\ ~viaFallback[c] /\ ~genAI
        /\ response[c].success
        /\ Len(response[c].internal_monologue) = 4
        /\ response[c].internal_monologue[3] = RetryEntry(response[c].internal_monologue[3].timestamp)

\* C25: in every successful local run the chassis that is scored is the one
\* determineChassisType chose: Halophilic exactly above 35 ppt, Mesophilic
\* only without stress, so the penalty for a stressed Mesophilic chassis is
\* never applied; the score is 0.85, 0.90 or 0.95 and the simulator's band is
\* OPTIMAL.
C25_LocalScoreAlwaysOptimal ==
    \A c \in Calls :
        (LocalEnvelopeProduced(c) /\ response[c].success) =>
            LET in == input[c]
                chassis == finalProposal[c].chassis_type
                design == response[c].data.props
                simulator == LocalPipelineEntries(c)[Len(LocalPipelineEntries(c))]
            IN  /\ design.chassis_type = chassis
                /\ (chassis = "Halophilic") <=> (in.salinity > SalinityThreshold)
                /\ (chassis = "Mesophilic") => ~in.stress_signal_bool
                /\ Len(finalProposal[c].mutation_list) \in {2, 3}
                /\ design.predicted_efficiency_score \in {85, 90, 95}
                /\ design.predicted_efficiency_score
                      = (IF in.stress_signal_bool THEN 65 ELSE 75)
                        + (IF Len(finalProposal[c].mutation_list) = 2 THEN 20 ELSE 25)
                        - (IF ~in.stress_signal_bool /\ Len(finalProposal[c].mutation_list) = 3
                           THEN 5 ELSE 0)
                /\ simulator.agent = "SIMULATOR"
                /\ simulator.decision.efficiency = design.predicted_efficiency_score
                /\ simulator.decision.band = "OPTIMAL"

\* C25 witness: the lowest score, a stressed sample at 35.0 ppt with a
\* two-mutation enzyme, was returned as OPTIMAL
C25_Witness ==
    \E c \in Calls :
        /\ Returned(c) /\ response[c].success /\ response[c].mode = "SIMULATION"
        /\ input[c].stress_signal_bool /\ input[c].salinity = 350
        /\ response[c].data.props.chassis_type = "Thermophilic"
        /\ response[c].data.props.predicted_efficiency_score = 85

\* each entry is stamped no earlier than the entry before it
NonDecreasingTimestamps(entries) ==
    \A i \in 1..(Len(entries) - 1) : entries[i].timestamp <= entries[i + 1].timestamp

\* C26 as stated: in every returned envelope, on the local, the remote and the
\* fallback path, each monologue entry's timestamp is no earlier than that of
\* the entry before it.
C26_TimestampsNonDecreasing ==
    \A c \in Calls :
        Returned(c) => NonDecreasingTimestamps(response[c].internal_monologue)

\* C26 amended: on the local and the remote path the timestamps never
\* decrease; on the fallback path they never decrease from the second entry
\* on, and the first entry, written last, is stamped no earlier than any other.
C26_TimestampsNonDecreasingAfterFallbackEntry ==
    \A c \in Calls :
        Returned(c) =>
            /\ NonDecreasingTimestamps(LocalPipelineEntries(c))
            /\ viaFallback[c] =>
                  \A i \in DOMAIN response[c].internal_monologue :
                      response[c].internal_monologue[i].timestamp
                          <= response[c].internal_monologue[1].timestamp

\* C26 witness: the fallback returned an envelope whose first entry is stamped
\* later than its second, the later entries being stamped at different instants
C26_Witness ==
    \E c \in Calls :
        /\ Returned(c) /\ viaFallback[c] /\ response[c].success
        /\ response[c].internal_monologue[1].timestamp
              > response[c].internal_monologue[2].timestamp
        /\ response[c].internal_monologue[2].timestamp
              < response[c].internal_monologue[5].timestamp

\* C27: in the OceanMap component, whenever selectedHistoryIndex is not null
\* the history entry at that index is the envelope shown as deploymentResult,
\* under any interleaving of deploy clicks, history selections and deploy
\* completions.
C27_HighlightedRowIsShownResult ==
    selectedHistoryIndex # JsNull =>
        /\ selectedHistoryIndex.num \in 0..(Len(deploymentHistory) - 1)
        /\ deploymentHistory[selectedHistoryIndex.num + 1] = deploymentResult

=============================================================================
